---- MODULE Spec2Model ----
(***************************************************************************)
(* Shortly: link shortener.  State machine of the server: the Link, Click  *)
(* and User collections, the click-logging pipeline (BullMQ queue or       *)
(* inline nextTick fallback), the public redirect handler, the links API   *)
(* and the auth API.                                                       *)
(*                                                                         *)
(* Three specifications share the variables:                               *)
(*   SpecRedirect  GET /r/:code and asynchronous click logging             *)
(*   SpecLinks     /api/links create, read, update, delete, QR             *)
(*   SpecAuth      /api/auth register, verify, login, forgot, requireAuth  *)
(***************************************************************************)
EXTENDS Integers, Sequences, FiniteSets, TLC

VARIABLES
  links,       \* Link collection: set of link documents
  nextLinkId,  \* next ObjectId handed out by Link.create
  clicks,      \* Click collection: clicks[l] = number of Click documents with linkId = l
  queue,       \* BullMQ "clicks" queue: sequence of job payloads (linkId)
  worker,      \* position of the Worker in the head job: "idle" | "created"
  inline,      \* scheduled inline fallback writes: inline[l][stage] = how many for link l
  useQueue,    \* queue/index.js useQueue flag
  issued,      \* link ids for which a signed unlock cookie was issued to the client
  now,         \* wall clock (minutes in SpecAuth, milliseconds in SpecLimit)
  ticks,       \* number of clock advances so far
  nreq,        \* number of requests handled so far
  last,        \* the last request handled (what the properties need of it) and its response
  served,      \* served[l] = number of 302 responses sent to link l's longUrl
  inflight,    \* links-API requests between their uniqueness check and their write:
               \* set of [kind, slot, user, id, code, value]
  users,       \* User collection: set of user documents
  nextUserId,  \* next ObjectId handed out by User.create
  regs,        \* register requests between findOne and User.create:
               \* set of [slot, email, password]
  tokens,      \* JWTs issued by sign(): set of [sub, exp, sig]
  devMail,     \* env.DEV_MAIL
  forgotSeen,  \* responses of POST /auth/forgot observed so far
  hits,        \* per-link limiter store: hits[key] = [n, resetAt]
  reach,       \* reach[key] = requests with the key that reached the redirect
               \* handler in the key's current limiter window
  views,       \* SavedView collection: set of [id, ownerId, name]
  annotations, \* Annotation collection: set of [id, ownerId, ts]
  nextDocId,   \* next ObjectId handed out to a saved view or annotation
  clickDocs,   \* Click documents as the analytics aggregation reads them:
               \* set of [id, linkId, ts, country, source]
  madeBy,      \* <<collection, id, u>>: user u created the saved view or annotation
               \* id and has not asked for its deletion since
  written,     \* written[l]: Click documents ever created for link l
  dbFailed     \* a click write has thrown (the error was swallowed)

vars == <<links, nextLinkId, clicks, queue, worker, inline, useQueue,
          issued, now, ticks, nreq, last, served, inflight, users, nextUserId,
          regs, tokens, devMail, forgotSeen, hits, reach, views, annotations,
          nextDocId, clickDocs, madeBy, written, dbFailed>>

pipelineVars == <<clicks, queue, worker, inline, useQueue>>
authVars == <<users, nextUserId, regs, tokens, devMail, forgotSeen>>
limiterVars == <<hits, reach>>
analyticsVars == <<views, annotations, nextDocId, clickDocs, madeBy>>
sideVars == <<limiterVars, analyticsVars, written>>

(***************************************************************************)
(* Bounds of the model                                                     *)
(***************************************************************************)
MaxLinks == 2      \* link documents ever created
MaxUsers == 2      \* user documents ever created
MaxReq == 2        \* redirect requests handled in one behaviour
MaxApiReq == 2     \* API requests handled in one behaviour
MaxTicks == 2      \* clock advances in one behaviour
MaxCap == 1        \* largest maxClicks a link is created with
MaxLimReq == 13    \* redirect requests in one behaviour of SpecLimit

LinkIds == 1..MaxLinks

(***************************************************************************)
(* Values                                                                  *)
(***************************************************************************)
NullDate == -1                 \* expiresAt: null
NoHash == <<>>                 \* passwordHash: null
Codes == {"c1", "c2", "zz"}    \* short codes (slugs)
RawCodes == {"c1", " c2", "zz"}   \* req.params.code as received
Passwords == {"pw1", "pw2"}

\* String.prototype.trim on the strings of the model
Trim(s) == IF s = " c2" THEN "c2" ELSE s

\* bcrypt.hashSync(String(pwd || ""), BCRYPT_ROUNDS)
hashPassword(pwd) == <<"bcrypt", pwd>>

comparePassword(pwd, hash) ==
  IF pwd = "" \/ hash = NoHash THEN FALSE ELSE hash = hashPassword(pwd)

NoLoc == [kind |-> "none", target |-> ""]

(***************************************************************************)
(* Click logging: queue/index.js                                           *)
(***************************************************************************)
\* Link.updateOne({_id: l}, {$inc: {clicksCount: 1}})
IncClicksCount(ls, l) ==
  {IF x.id = l THEN [x EXCEPT !.clicksCount = @ + 1] ELSE x : x \in ls}

\* a plausible slip: the fallback is not skipped after a successful queue.add
enqueueClickBoth(l, addOk) ==
  /\ queue' = IF useQueue /\ addOk THEN Append(queue, l) ELSE queue
  /\ inline' = [inline EXCEPT ![l].new = @ + 1]

\* enqueueClick: queue.add when the queue is in use and the add succeeds
\* (addOk), else the inline fallback is scheduled on nextTick.
enqueueClick(l, addOk) ==
  IF useQueue /\ addOk
    THEN /\ queue' = Append(queue, l)
         /\ inline' = inline
    ELSE /\ inline' = [inline EXCEPT ![l].new = @ + 1]
         /\ queue' = queue

\* Worker job handler, first await: Click.create(payload)
WorkerCreate ==
  /\ queue # <<>> /\ worker = "idle"
  /\ clicks' = [clicks EXCEPT ![Head(queue)] = @ + 1]
  /\ worker' = "created"
  /\ UNCHANGED <<links, nextLinkId, queue, inline, useQueue, issued, now,
                 ticks, nreq, last, served, inflight>>
  /\ UNCHANGED authVars
  /\ written' = [written EXCEPT ![Head(queue)] = @ + 1]
  /\ UNCHANGED <<limiterVars, analyticsVars, dbFailed>>

\* Worker job handler, second await: Link.updateOne($inc clicksCount); job done
WorkerInc ==
  /\ queue # <<>> /\ worker = "created"
  /\ links' = IncClicksCount(links, Head(queue))
  /\ queue' = Tail(queue)
  /\ worker' = "idle"
  /\ UNCHANGED <<nextLinkId, clicks, inline, useQueue, issued, now,
                 ticks, nreq, last, served, inflight>>
  /\ UNCHANGED authVars
  /\ UNCHANGED <<sideVars, dbFailed>>

\* A database write of the job throws: the job fails and is not retried
WorkerFail ==
  /\ queue # <<>>
  /\ queue' = Tail(queue)
  /\ worker' = "idle"
  /\ UNCHANGED <<links, nextLinkId, clicks, inline, useQueue, issued, now,
                 ticks, nreq, last, served, inflight>>
  /\ UNCHANGED authVars
  /\ dbFailed' = TRUE
  /\ UNCHANGED sideVars

\* worker.on("error") / queue.on("error"): degrade to the inline fallback
QueueError ==
  /\ useQueue
  /\ useQueue' = FALSE
  /\ UNCHANGED <<links, nextLinkId, clicks, queue, worker, inline, issued,
                 now, ticks, nreq, last, served, inflight>>
  /\ UNCHANGED authVars
  /\ UNCHANGED <<sideVars, dbFailed>>

\* inline fallback, first await: Click.create(payload)
InlineCreate ==
  \E l \in LinkIds :
    /\ inline[l].new > 0
    /\ clicks' = [clicks EXCEPT ![l] = @ + 1]
    /\ inline' = [inline EXCEPT ![l].new = @ - 1, ![l].created = @ + 1]
    /\ UNCHANGED <<links, nextLinkId, queue, worker, useQueue, issued, now,
                   ticks, nreq, last, served, inflight>>
    /\ UNCHANGED authVars
    /\ written' = [written EXCEPT ![l] = @ + 1]
    /\ UNCHANGED <<limiterVars, analyticsVars, dbFailed>>

\* inline fallback, second await: Link.updateOne($inc clicksCount)
InlineInc ==
  \E l \in LinkIds :
    /\ inline[l].created > 0
    /\ links' = IncClicksCount(links, l)
    /\ inline' = [inline EXCEPT ![l].created = @ - 1]
    /\ UNCHANGED <<nextLinkId, clicks, queue, worker, useQueue, issued, now,
                   ticks, nreq, last, served, inflight>>
    /\ UNCHANGED authVars
    /\ UNCHANGED <<sideVars, dbFailed>>

\* inline fallback: a write throws, the catch block swallows it
InlineFail ==
  \E l \in LinkIds, stage \in {"new", "created"} :
    /\ inline[l][stage] > 0
    /\ inline' = [inline EXCEPT ![l][stage] = @ - 1]
    /\ UNCHANGED <<links, nextLinkId, clicks, queue, worker, useQueue, issued, now,
                   ticks, nreq, last, served, inflight>>
    /\ UNCHANGED authVars
    /\ dbFailed' = TRUE
    /\ UNCHANGED sideVars

(***************************************************************************)
(* Clock                                                                   *)
(***************************************************************************)
Tick(d) ==
  /\ ticks < MaxTicks
  /\ now' = now + d
  /\ ticks' = ticks + 1
  /\ UNCHANGED <<links, nextLinkId, issued, nreq, last, served, inflight>>
  /\ UNCHANGED pipelineVars
  /\ UNCHANGED authVars
  /\ UNCHANGED <<sideVars, dbFailed>>

(***************************************************************************)
(* Public redirect: routes/redirect.routes.js, r.get("/:code")             *)
(***************************************************************************)
\* what Link.findOne(...).lean() yields when no document matches
NoLinkDoc ==
  [id |-> 0, ownerId |-> 0, code |-> "", longUrl |-> "", isActive |-> FALSE,
   expiresAt |-> NullDate, passwordHash |-> NoHash, maxClicks |-> 0, clicksCount |-> 0]

\* the Cookie header: no unlock cookie, or one whose signature verifies
\* ("signed1": value "1") or does not ("forged"), under the key of link `key`
Cookies(ids) ==
  {[key |-> 0, val |-> "absent"]} \cup [key : ids, val : {"signed1", "forged"}]
RedirectReqs(ids) ==
  [code : RawCodes, cookie : Cookies(ids), pw : {""} \cup Passwords, ok : {"", "1"}]

\* `sl_pw_ok_${link._id}` with the characters outside [a-zA-Z0-9_-] removed:
\* one key per link id
CookieKey(link) == link.id

\* cookie-parser: req.signedCookies[k] is the value of a cookie whose signature
\* verifies, false for a tampered one, undefined for none
signedCookies(cookie, k) ==
  IF cookie.key # k THEN "undefined"
  ELSE IF cookie.val = "signed1" THEN "1"
  ELSE IF cookie.val = "forged" THEN "false"
  ELSE "undefined"

\* a plausible slip: any unlock cookie opens any link
okCookieAnyLink(link, cookie) == signedCookies(cookie, cookie.key) = "1"

okCookie(link, cookie) == signedCookies(cookie, CookieKey(link)) = "1"

\* a plausible slip: the expiry check is left out
GuardsNoExpiry(hasLink, link, t) ==
  IF ~hasLink \/ ~link.isActive THEN 404
  ELSE IF link.maxClicks # 0 /\ link.clicksCount >= link.maxClicks THEN 429
  ELSE 200

\* a plausible slip: a disabled link is still served
GuardsNoActive(hasLink, link, t) ==
  IF ~hasLink THEN 404
  ELSE IF link.expiresAt # NullDate /\ link.expiresAt < t THEN 410
  ELSE IF link.maxClicks # 0 /\ link.clicksCount >= link.maxClicks THEN 429
  ELSE 200

\* not found / disabled, expired, max clicks reached; 200 stands for "go on"
Guards(hasLink, link, t) ==
  IF ~hasLink \/ ~link.isActive THEN 404
  ELSE IF link.expiresAt # NullDate /\ link.expiresAt < t THEN 410
  ELSE IF link.maxClicks # 0 /\ link.clicksCount >= link.maxClicks THEN 429
  ELSE 200

\* optional password gate
PasswordGate(link, req) ==
  LET okC == okCookie(link, req.cookie)
      okPw == IF req.pw # "" THEN comparePassword(req.pw, link.passwordHash) ELSE FALSE
      cameBackOk == req.ok = "1"
  IN  IF link.passwordHash = NoHash THEN "pass"
      ELSE IF ~okC /\ ~okPw THEN "unlock"
      ELSE IF req.pw # "" /\ ~okPw THEN "unlockErr"
      ELSE IF okPw /\ ~okC /\ ~cameBackOk THEN "setCookie"
      ELSE "pass"

\* the response of the handler and whether it sets the cookie / logs a click
RedirectResponse(hasLink, link, req, t) ==
  LET g == Guards(hasLink, link, t)
      p == IF g = 200 THEN PasswordGate(link, req) ELSE "blocked"
      code == Trim(req.code)
  IN  IF g # 200
        THEN [status |-> g, loc |-> NoLoc, setCookie |-> FALSE, log |-> FALSE]
      ELSE IF p = "unlock"
        THEN [status |-> 302, loc |-> [kind |-> "unlock", target |-> code],
              setCookie |-> FALSE, log |-> FALSE]
      ELSE IF p = "unlockErr"
        THEN [status |-> 302, loc |-> [kind |-> "unlockErr", target |-> code],
              setCookie |-> FALSE, log |-> FALSE]
      ELSE IF p = "setCookie"
        THEN [status |-> 302, loc |-> [kind |-> "retryOk", target |-> code],
              setCookie |-> TRUE, log |-> FALSE]
      ELSE [status |-> 302, loc |-> [kind |-> "url", target |-> link.longUrl],
            setCookie |-> FALSE, log |-> TRUE]

(* What the properties need to know of a request (recorded in `last`) *)
\* the request carries the signed unlock cookie issued for link l, value "1"
CarriesUnlockCookie(req, l) ==
  req.cookie.key = l.id /\ req.cookie.val = "signed1" /\ l.id \in issued

\* the pw query parameter matches the password hash of link l
PwMatches(req, l) == req.pw # "" /\ l.passwordHash = hashPassword(req.pw)

\* queue.add resolves (TRUE) or throws (FALSE); it is called only when the
\* queue is in use
AddOutcomes == IF useQueue THEN BOOLEAN ELSE {TRUE}

\* the route handler of r.get("/:code"), for a request from address ip
Handle(req, ip, addOk) ==
  /\ req.cookie.val = "signed1" => req.cookie.key \in issued
  /\ LET found == {l \in links : l.code = Trim(req.code)}
     IN  \E link \in (IF found = {} THEN {NoLinkDoc} ELSE found) :
           LET r == RedirectResponse(found # {}, link, req, now)
           IN  /\ last' = [kind |-> "redirect", code |-> req.code,
                           carries |-> CarriesUnlockCookie(req, link),
                           pwMatches |-> PwMatches(req, link),
                           status |-> r.status, loc |-> r.loc,
                           ip |-> ip, limited |-> FALSE,
                           add |-> IF r.log /\ useQueue
                                     THEN (IF addOk THEN "ok" ELSE "threw")
                                     ELSE "none"]
               /\ issued' = IF r.setCookie THEN issued \cup {CookieKey(link)} ELSE issued
               /\ IF r.log THEN enqueueClick(link.id, addOk)
                           ELSE UNCHANGED <<queue, inline>>
               /\ served' = IF r.loc.kind = "url"
                              THEN [served EXCEPT ![link.id] = @ + 1] ELSE served
  /\ nreq' = nreq + 1
  /\ UNCHANGED <<links, nextLinkId, clicks, worker, useQueue, now, ticks,
                 inflight>>
  /\ UNCHANGED authVars
  /\ UNCHANGED <<analyticsVars, written, dbFailed>>

\* r.get("/:code") for a request that the limiters in front of the handler
\* let through
Redirect(req, addOk) ==
  /\ nreq < MaxReq
  /\ Handle(req, "ip1", addOk)
  /\ UNCHANGED limiterVars

(***************************************************************************)
(* Per-link limiter: middlewares/rateLimit.js, perLinkLimiter              *)
(***************************************************************************)
PER_LINK_WINDOW_MS == 5000
PER_LINK_MAX == 12

Ips == {"ip1", "ip2"}            \* first x-forwarded-for entry / socket address
LimiterKeys == RawCodes \X Ips

\* keyGenerator: `${code}|${ip}`, the code as received (not trimmed)
keyGenerator(code, ip) == <<code, ip>>

\* rateLimit store, one hit of key k at time t: the first hit of a window sets
\* the counter to 1 and the reset time to t + windowMs
Hit(h, k, t) ==
  IF h[k].n = 0 \/ t >= h[k].resetAt
    THEN [h EXCEPT ![k] = [n |-> 1, resetAt |-> t + PER_LINK_WINDOW_MS]]
    ELSE [h EXCEPT ![k].n = @ + 1]

\* a plausible slip: the request that reaches the limit is counted late
OverLimitLate(n) == n > PER_LINK_MAX + 1

\* rateLimit: the request is refused when its hit count exceeds max
OverLimit(n) == n > PER_LINK_MAX

\* what a request refused by a limiter leaves in `last`
Limited(req, ip) ==
  [kind |-> "redirect", code |-> req.code, carries |-> FALSE, pwMatches |-> FALSE,
   status |-> 429, loc |-> NoLoc, ip |-> ip, limited |-> TRUE, add |-> "none"]

\* r.get("/:code", redirectLimiter, perLinkLimiter({windowMs: 5000, max: 12}),
\* handler): ipOk is the verdict of redirectLimiter (50 requests per 10 s and
\* address), whose counter is not modelled
LimitedRedirect(req, ip, ipOk, addOk) ==
  /\ nreq < MaxLimReq
  /\ LET k == keyGenerator(req.code, ip)
         h == Hit(hits, k, now)
         opened == h[k].n = 1
     IN  IF ~ipOk
           THEN /\ last' = Limited(req, ip)
                /\ nreq' = nreq + 1
                /\ UNCHANGED <<hits, reach, links, nextLinkId, clicks, worker, useQueue,
                               now, ticks, inflight, queue, inline, issued, served>>
                /\ UNCHANGED <<authVars, analyticsVars, written, dbFailed>>
         ELSE IF OverLimit(h[k].n)
           THEN /\ hits' = h
                /\ reach' = IF opened THEN [reach EXCEPT ![k] = 0] ELSE reach
                /\ last' = Limited(req, ip)
                /\ nreq' = nreq + 1
                /\ UNCHANGED <<links, nextLinkId, clicks, worker, useQueue,
                               now, ticks, inflight, queue, inline, issued, served>>
                /\ UNCHANGED <<authVars, analyticsVars, written, dbFailed>>
         ELSE /\ hits' = h
              /\ reach' = [reach EXCEPT ![k] = (IF opened THEN 0 ELSE @) + 1]
              /\ Handle(req, ip, addOk)

InitSideIdle ==
  /\ hits = [k \in LimiterKeys |-> [n |-> 0, resetAt |-> 0]]
  /\ reach = [k \in LimiterKeys |-> 0]
  /\ views = {} /\ annotations = {} /\ nextDocId = 1 /\ clickDocs = {}
  /\ madeBy = {}
  /\ dbFailed = FALSE

(***************************************************************************)
(* SpecRedirect: two links as the links API stores them, then redirect     *)
(* requests, click writes and clock advances in any order                  *)
(***************************************************************************)
LinkDoc(id, owner, code, url, active, exp, hash, cap) ==
  [id |-> id, ownerId |-> owner, code |-> code, longUrl |-> url, isActive |-> active,
   expiresAt |-> exp, passwordHash |-> hash, maxClicks |-> cap, clicksCount |-> 0]

InitAuthIdle ==
  /\ users = {} /\ nextUserId = 1 /\ regs = {} /\ tokens = {}
  /\ devMail = FALSE /\ forgotSeen = {}

InitRedirect ==
  /\ \E active \in BOOLEAN, exp \in {NullDate, 1}, h1 \in {NoHash, hashPassword("pw1")},
        cap \in 0..MaxCap :
       links = {LinkDoc(1, 1, "c1", "u1", active, exp, h1, cap),
                LinkDoc(2, 1, "c2", "u2", TRUE, NullDate, hashPassword("pw2"), 0)}
  /\ nextLinkId = 3
  /\ clicks = [l \in LinkIds |-> 0]
  /\ queue = <<>> /\ worker = "idle"
  /\ inline = [l \in LinkIds |-> [new |-> 0, created |-> 0]]
  /\ useQueue \in BOOLEAN
  /\ issued = {}
  /\ now = 0 /\ ticks = 0 /\ nreq = 0
  /\ last = [kind |-> "none"]
  /\ served = [l \in LinkIds |-> 0]
  /\ inflight = {}
  /\ InitAuthIdle
  /\ InitSideIdle
  /\ written = clicks

\* the handler reads the clock only to compare it with expiresAt: the clock
\* advances until every expiry date has passed
ExpiryAhead == \E l \in links : l.expiresAt # NullDate /\ now <= l.expiresAt

NextRedirect ==
  \/ \E req \in RedirectReqs({l.id : l \in links}), addOk \in AddOutcomes :
       Redirect(req, addOk)
  \/ WorkerCreate \/ WorkerInc \/ WorkerFail \/ QueueError
  \/ InlineCreate \/ InlineInc \/ InlineFail
  \/ ExpiryAhead /\ Tick(1)

SpecRedirect == InitRedirect /\ [][NextRedirect]_vars

(***************************************************************************)
(* SpecLimit: one plain link without click cap, the inline fallback in     *)
(* use; requests for its code from two addresses through the limiters.     *)
(* The click writes that the handler schedules stay pending: with          *)
(* maxClicks = 0 neither limiter nor handler reads what they write.        *)
(***************************************************************************)
LimitReqs == [code : {"c1"}, cookie : Cookies({}), pw : {""}, ok : {""}]

InitLimit ==
  /\ links = {LinkDoc(1, 1, "c1", "u1", TRUE, NullDate, NoHash, 0)}
  /\ nextLinkId = 2
  /\ clicks = [l \in LinkIds |-> 0]
  /\ queue = <<>> /\ worker = "idle"
  /\ inline = [l \in LinkIds |-> [new |-> 0, created |-> 0]]
  /\ useQueue = FALSE
  /\ issued = {}
  /\ now = 0 /\ ticks = 0 /\ nreq = 0
  /\ last = [kind |-> "none"]
  /\ served = [l \in LinkIds |-> 0]
  /\ inflight = {}
  /\ InitAuthIdle
  /\ InitSideIdle
  /\ written = clicks

NextLimit ==
  \/ \E req \in LimitReqs, ip \in Ips, ipOk \in BOOLEAN :
       LimitedRedirect(req, ip, ipOk, TRUE)
  \/ Tick(PER_LINK_WINDOW_MS \div 2)

SpecLimit == InitLimit /\ [][NextLimit]_vars

(***************************************************************************)
(* Links API: routes/links.routes.js.  Every route runs behind requireAuth, *)
(* u is req.user._id.                                                      *)
(***************************************************************************)
redirectVars == <<issued, served>>
clockVars == <<now, ticks>>

\* what an API handler step leaves in `last`; status 0: no response sent yet
ApiLast(kind, u, id, status) ==
  [kind |-> kind, user |-> u, id |-> id, status |-> status]

\* the two authenticated users of the links API
ApiUsers == {1, 2}

\* in-flight requests are told apart by a slot number: the lowest one free
FreeSlot == CHOOSE k \in 1..(Cardinality(inflight) + 1) :
              /\ \A r \in inflight : r.slot # k
              /\ \A j \in 1..(k - 1) : \E r \in inflight : r.slot = j

\* a plausible slip: the collection has no unique index on code
UniqueCodeIndexMissing(ls, id, code) == TRUE

\* linkSchema code: { unique: true }: the write of a document with _id id and
\* this code is accepted iff no other document has the code
UniqueCodeIndex(ls, id, code) == \A l \in ls : l.code = code => l.id = id

\* r.post("/") up to the await of fetchPageMeta: the code is the one asked for
\* (409 if a link has it) or a generated one that no link has
CreateCheck(u, value) ==
  /\ nreq < MaxApiReq
  /\ nextLinkId + Cardinality({r \in inflight : r.kind = "create"}) <= MaxLinks
  /\ IF value.code = ""
       THEN \E g \in Codes :
              /\ ~\E l \in links : l.code = g
              /\ inflight' = inflight \cup
                   {[kind |-> "create", slot |-> FreeSlot, user |-> u, id |-> 0,
                     code |-> g, value |-> value]}
              /\ last' = ApiLast("create", u, 0, 0)
       ELSE IF \E l \in links : l.code = value.code
         THEN /\ inflight' = inflight
              /\ last' = ApiLast("create", u, 0, 409)
         ELSE /\ inflight' = inflight \cup
                   {[kind |-> "create", slot |-> FreeSlot, user |-> u, id |-> 0,
                     code |-> value.code, value |-> value]}
              /\ last' = ApiLast("create", u, 0, 0)
  /\ nreq' = nreq + 1
  /\ UNCHANGED <<links, nextLinkId>>
  /\ UNCHANGED <<pipelineVars, redirectVars, clockVars, authVars>>
  /\ UNCHANGED <<sideVars, dbFailed>>

\* r.post("/"): Link.create; a duplicate key error ends the request
CreateInsert ==
  \E r \in inflight :
    /\ r.kind = "create"
    /\ IF UniqueCodeIndex(links, nextLinkId, r.code)
         THEN /\ links' = links \cup
                   {[id |-> nextLinkId, ownerId |-> r.user, code |-> r.code,
                     longUrl |-> r.value.longUrl, isActive |-> TRUE,
                     expiresAt |-> r.value.expiresAt,
                     passwordHash |-> IF r.value.password # ""
                                        THEN hashPassword(r.value.password) ELSE NoHash,
                     maxClicks |-> r.value.maxClicks, clicksCount |-> 0]}
              /\ nextLinkId' = nextLinkId + 1
              /\ last' = ApiLast("create", r.user, nextLinkId, 200)
         ELSE /\ UNCHANGED <<links, nextLinkId>>
              /\ last' = ApiLast("create", r.user, 0, 500)
    /\ inflight' = inflight \ {r}
    /\ UNCHANGED nreq
    /\ UNCHANGED <<pipelineVars, redirectVars, clockVars, authVars>>
    /\ UNCHANGED <<sideVars, dbFailed>>

\* r.get("/:id") and r.get("/:id/qr"): Link.findOne({_id, ownerId})
ReadLink(kind, u, id) ==
  /\ nreq < MaxApiReq
  /\ last' = ApiLast(kind, u, id,
                     IF \E l \in links : l.id = id /\ l.ownerId = u THEN 200 ELSE 404)
  /\ nreq' = nreq + 1
  /\ UNCHANGED <<links, nextLinkId, inflight>>
  /\ UNCHANGED <<pipelineVars, redirectVars, clockVars, authVars>>
  /\ UNCHANGED <<sideVars, dbFailed>>

\* r.patch("/:id") up to the awaits before findOneAndUpdate: code rename
\* uniqueness check; value.code = "" stands for no code in the body, isActive
\* "absent" for no isActive in the body
PatchCheck(u, id, value) ==
  /\ nreq < MaxApiReq
  /\ IF value.code # "" /\ \E l \in links : l.code = value.code /\ l.id # id
       THEN /\ inflight' = inflight
            /\ last' = ApiLast("patch", u, id, 409)
       ELSE /\ inflight' = inflight \cup
                 {[kind |-> "patch", slot |-> FreeSlot, user |-> u, id |-> id,
                   code |-> value.code, value |-> value]}
            /\ last' = ApiLast("patch", u, id, 0)
  /\ nreq' = nreq + 1
  /\ UNCHANGED <<links, nextLinkId>>
  /\ UNCHANGED <<pipelineVars, redirectVars, clockVars, authVars>>
  /\ UNCHANGED <<sideVars, dbFailed>>

\* { $set } applied to a document
ApplySet(l, value) ==
  [l EXCEPT !.code = IF value.code # "" THEN value.code ELSE @,
            !.isActive = IF value.isActive = "absent" THEN @ ELSE value.isActive = "true"]

\* the filter { _id: req.params.id, ownerId: req.user._id }
MatchOwned(l, u, id) == l.id = id /\ l.ownerId = u

\* r.patch("/:id"): Link.findOneAndUpdate({_id, ownerId}, {$set}, {new: true})
PatchWrite ==
  \E r \in inflight :
    /\ r.kind = "patch"
    /\ LET hit == {l \in links : MatchOwned(l, r.user, r.id)}
       IN  IF hit = {}
             THEN /\ links' = links
                  /\ last' = ApiLast("patch", r.user, r.id, 404)
           ELSE IF r.code # "" /\ ~UniqueCodeIndex(links, r.id, r.code)
             THEN /\ links' = links
                  /\ last' = ApiLast("patch", r.user, r.id, 500)
           ELSE /\ links' = (links \ hit) \cup {ApplySet(l, r.value) : l \in hit}
                /\ last' = ApiLast("patch", r.user, r.id, 200)
    /\ inflight' = inflight \ {r}
    /\ UNCHANGED <<nextLinkId, nreq>>
    /\ UNCHANGED <<pipelineVars, redirectVars, clockVars, authVars>>
    /\ UNCHANGED <<sideVars, dbFailed>>

\* r.delete("/:id"): Link.deleteOne({_id, ownerId}); Click.deleteMany({linkId})
DeleteLink(u, id) ==
  /\ nreq < MaxApiReq
  /\ links' = {l \in links : ~MatchOwned(l, u, id)}
  /\ clicks' = [clicks EXCEPT ![id] = 0]
  /\ last' = ApiLast("delete", u, id, 200)
  /\ nreq' = nreq + 1
  /\ UNCHANGED <<nextLinkId, inflight, queue, worker, inline, useQueue>>
  /\ UNCHANGED <<redirectVars, clockVars, authVars>>
  /\ UNCHANGED <<sideVars, dbFailed>>

(***************************************************************************)
(* SpecLinks: two authenticated users use the links API.  The collections  *)
(* start empty, or hold one or two links that were each followed once.     *)
(***************************************************************************)
CreateValues ==
  [code : {"", "c1", "c2"}, longUrl : {"u1"}, password : {""}, maxClicks : {0},
   expiresAt : {NullDate}]
PatchValues == [code : {"", "c1", "c2"}, isActive : {"absent", "false"}]

\* a link of user u that one visitor has followed
VisitedLink(id, u, code) ==
  [LinkDoc(id, u, code, "u1", TRUE, NullDate, NoHash, 0) EXCEPT !.clicksCount = 1]

InitLinks ==
  /\ \E k \in 0..2 :
       /\ links = {VisitedLink(id, id, IF id = 1 THEN "c1" ELSE "c2") : id \in 1..k}
       /\ nextLinkId = k + 1
       /\ clicks = [l \in LinkIds |-> IF l <= k THEN 1 ELSE 0]
  /\ queue = <<>> /\ worker = "idle"
  /\ inline = [l \in LinkIds |-> [new |-> 0, created |-> 0]]
  /\ useQueue = FALSE
  /\ issued = {}
  /\ now = 0 /\ ticks = 0 /\ nreq = 0
  /\ last = [kind |-> "none"]
  /\ served = [l \in LinkIds |-> IF \E x \in links : x.id = l THEN 1 ELSE 0]
  /\ inflight = {}
  /\ InitAuthIdle
  /\ InitSideIdle
  /\ written = clicks

NextLinks ==
  \/ \E u \in ApiUsers, value \in CreateValues : CreateCheck(u, value)
  \/ CreateInsert
  \/ \E u \in ApiUsers, id \in LinkIds : ReadLink("get", u, id)
  \/ \E u \in ApiUsers, id \in LinkIds : ReadLink("qr", u, id)
  \/ \E u \in ApiUsers, id \in LinkIds, value \in PatchValues : PatchCheck(u, id, value)
  \/ PatchWrite
  \/ \E u \in ApiUsers, id \in LinkIds : DeleteLink(u, id)

SpecLinks == InitLinks /\ [][NextLinks]_vars

(***************************************************************************)
(* Auth API: routes/auth.routes.js, middlewares/auth.js                    *)
(***************************************************************************)
linkVars == <<links, nextLinkId, inflight>>

VERIFY_CODE_EXP_MIN == 10
RESET_CODE_EXP_MIN == 10
TOKEN_TTL_MIN == 10080           \* TOKEN_TTL = "7d", in minutes

RawEmails == {"a@x.io", "A@x.io", "b@x.io", "nope"}   \* req.body.email as received
SixDigits == {"111111", "222222"}                     \* results of sixDigits()
Message == "If the email exists, a code has been sent."

\* Joi.string().email()
IsEmail(e) == e # "nope"

\* String(value.email).trim().toLowerCase() on the strings of the model
NormEmail(e) == IF e = "A@x.io" THEN "a@x.io" ELSE e

NoToken == [sub |-> 0, exp |-> 0, sig |-> "none"]

\* jwt.sign({sub: user._id, email}, env.JWT_SECRET, {expiresIn: TOKEN_TTL})
sign(user) == [sub |-> user.id, exp |-> now + TOKEN_TTL_MIN, sig |-> "server"]

\* what an auth handler step leaves in `last`; status 0: no response sent yet
AuthLast(kind, email, password, status, code, token) ==
  [kind |-> kind, email |-> email, password |-> password, status |-> status,
   code |-> code, token |-> token]

\* what /verify and /reset leave in `last`: the email and code received, the
\* status and the token of the response
CodeLast(kind, value, status, token) ==
  [kind |-> kind, email |-> value.email, sent |-> value.code, status |-> status,
   code |-> "", token |-> token]

\* a plausible slip: codes never expire
CodeExpiredNever(expiresAt, t) == FALSE

\* expiresAt.getTime() < now()
CodeExpired(expiresAt, t) == expiresAt < t

UserDoc(id, email, password, code) ==
  [id |-> id, email |-> email, passwordHash |-> hashPassword(password),
   emailVerified |-> FALSE, verifyCode |-> code,
   verifyCodeExpires |-> now + VERIFY_CODE_EXP_MIN,
   resetCode |-> "", resetCodeExpires |-> NullDate]

FreeRegSlot == CHOOSE k \in 1..(Cardinality(regs) + 1) :
                 /\ \A r \in regs : r.slot # k
                 /\ \A j \in 1..(k - 1) : \E r \in regs : r.slot = j

\* a plausible slip: the collection has no unique index on email
UniqueEmailIndexMissing(us, email) == TRUE

\* userSchema email: { unique: true }: a new document is accepted iff no
\* document has the email
UniqueEmailIndex(us, email) == \A u \in us : u.email # email

\* r.post("/register") up to User.create: validation, findOne({email})
RegisterCheck(value) ==
  /\ nreq < MaxApiReq
  /\ nextUserId + Cardinality(regs) <= MaxUsers
  /\ LET email == NormEmail(value.email)
     IN  IF ~IsEmail(value.email)
           THEN /\ regs' = regs
                /\ last' = AuthLast("register", value.email, "", 400, "", NoToken)
         ELSE IF \E u \in users : u.email = email
           THEN /\ regs' = regs
                /\ last' = AuthLast("register", value.email, "", 409, "", NoToken)
         ELSE /\ regs' = regs \cup {[slot |-> FreeRegSlot, email |-> email,
                                      password |-> value.password]}
              /\ last' = AuthLast("register", value.email, "", 0, "", NoToken)
  /\ nreq' = nreq + 1
  /\ UNCHANGED <<users, nextUserId, tokens, devMail, forgotSeen>>
  /\ UNCHANGED <<linkVars, pipelineVars, redirectVars, clockVars>>
  /\ UNCHANGED <<sideVars, dbFailed>>

\* r.post("/register"): User.create, then the verification code is saved and
\* mailed; a duplicate key error ends the request
RegisterCreate ==
  \E r \in regs, code \in SixDigits :
    /\ IF UniqueEmailIndex(users, r.email)
         THEN /\ users' = users \cup {UserDoc(nextUserId, r.email, r.password, code)}
              /\ nextUserId' = nextUserId + 1
              /\ last' = AuthLast("register", r.email, "", 200,
                                  IF devMail THEN code ELSE "", NoToken)
         ELSE /\ UNCHANGED <<users, nextUserId>>
              /\ last' = AuthLast("register", r.email, "", 500, "", NoToken)
    /\ regs' = regs \ {r}
    /\ UNCHANGED <<nreq, tokens, devMail, forgotSeen>>
    /\ UNCHANGED <<linkVars, pipelineVars, redirectVars, clockVars>>
    /\ UNCHANGED <<sideVars, dbFailed>>

\* a plausible slip: the code is left in the document
markVerifiedKeepCode(user) == [user EXCEPT !.emailVerified = TRUE]

\* /verify on success: emailVerified = true, verifyCode = null,
\* verifyCodeExpires = null
markVerified(user) ==
  [user EXCEPT !.emailVerified = TRUE, !.verifyCode = "", !.verifyCodeExpires = NullDate]

\* r.post("/verify")
Verify(value) ==
  /\ nreq < MaxApiReq
  /\ LET found == {u \in users : u.email = NormEmail(value.email)}
     IN  IF ~IsEmail(value.email) \/ found = {}
           THEN /\ last' = CodeLast("verify", value, 400, NoToken)
                /\ UNCHANGED <<users, tokens>>
         ELSE \E user \in found :
           IF \/ user.verifyCode = "" \/ user.verifyCode # value.code
              \/ CodeExpired(user.verifyCodeExpires, now)
             THEN /\ last' = CodeLast("verify", value, 400, NoToken)
                  /\ UNCHANGED <<users, tokens>>
             ELSE LET saved == markVerified(user)
                  IN  /\ users' = (users \ {user}) \cup {saved}
                      /\ tokens' = tokens \cup {sign(saved)}
                      /\ last' = CodeLast("verify", value, 200, sign(saved))
  /\ nreq' = nreq + 1
  /\ UNCHANGED <<nextUserId, regs, devMail, forgotSeen>>
  /\ UNCHANGED <<linkVars, pipelineVars, redirectVars, clockVars>>
  /\ UNCHANGED <<sideVars, dbFailed>>

\* r.post("/resend-verify")
ResendVerify(rawEmail, code) ==
  /\ nreq < MaxApiReq
  /\ LET found == {u \in users : u.email = NormEmail(rawEmail)}
     IN  IF found = {}
           THEN /\ last' = AuthLast("resend", "", "", 400, "", NoToken)
                /\ users' = users
         ELSE \E user \in found :
           IF user.emailVerified
             THEN /\ last' = AuthLast("resend", "", "", 200, "", NoToken)
                  /\ users' = users
             ELSE /\ users' = (users \ {user}) \cup
                        {[user EXCEPT !.verifyCode = code,
                                      !.verifyCodeExpires = now + VERIFY_CODE_EXP_MIN]}
                  /\ last' = AuthLast("resend", "", "", 200,
                                      IF devMail THEN code ELSE "", NoToken)
  /\ nreq' = nreq + 1
  /\ UNCHANGED <<nextUserId, regs, tokens, devMail, forgotSeen>>
  /\ UNCHANGED <<linkVars, pipelineVars, redirectVars, clockVars>>
  /\ UNCHANGED <<sideVars, dbFailed>>

\* a plausible slip: the emailVerified check is left out
LoginOutcomeNoVerifiedCheck(user, hasUser, password) ==
  IF ~hasUser THEN [status |-> 401, code |-> "", token |-> NoToken]
  ELSE IF ~comparePassword(password, user.passwordHash)
    THEN [status |-> 401, code |-> "", token |-> NoToken]
  ELSE [status |-> 200, code |-> "", token |-> sign(user)]

\* r.post("/login") after validation: the response for the user found
LoginOutcome(user, hasUser, password) ==
  IF ~hasUser THEN [status |-> 401, code |-> "", token |-> NoToken]
  ELSE IF ~comparePassword(password, user.passwordHash)
    THEN [status |-> 401, code |-> "", token |-> NoToken]
  ELSE IF ~user.emailVerified
    THEN [status |-> 403, code |-> "EMAIL_NOT_VERIFIED", token |-> NoToken]
  ELSE [status |-> 200, code |-> "", token |-> sign(user)]

NoUserDoc ==
  [id |-> 0, email |-> "", passwordHash |-> NoHash, emailVerified |-> FALSE,
   verifyCode |-> "", verifyCodeExpires |-> NullDate, resetCode |-> "",
   resetCodeExpires |-> NullDate]

\* r.post("/login")
Login(value) ==
  /\ nreq < MaxApiReq
  /\ IF ~IsEmail(value.email)
       THEN /\ last' = AuthLast("login", value.email, value.password, 400, "", NoToken)
            /\ tokens' = tokens
       ELSE LET found == {u \in users : u.email = NormEmail(value.email)}
            IN  \E user \in (IF found = {} THEN {NoUserDoc} ELSE found) :
                  LET r == LoginOutcome(user, found # {}, value.password)
                  IN  /\ last' = AuthLast("login", value.email, value.password,
                                          r.status, r.code, r.token)
                      /\ tokens' = IF r.token # NoToken THEN tokens \cup {r.token}
                                                        ELSE tokens
  /\ nreq' = nreq + 1
  /\ UNCHANGED <<users, nextUserId, regs, devMail, forgotSeen>>
  /\ UNCHANGED <<linkVars, pipelineVars, redirectVars, clockVars>>
  /\ UNCHANGED <<sideVars, dbFailed>>

\* a plausible slip: an unknown account is told apart
ForgotResponseLeaky(exists, code, dev) ==
  IF ~exists THEN [status |-> 400, message |-> "Account not found", devCode |-> ""]
  ELSE [status |-> 200, message |-> Message, devCode |-> IF dev THEN code ELSE ""]

\* r.post("/forgot"): status and JSON body of the response to a valid body;
\* devCode "" is an absent field
ForgotResponse(exists, code, dev) ==
  IF ~exists THEN [status |-> 200, message |-> Message, devCode |-> ""]
  ELSE [status |-> 200, message |-> Message, devCode |-> IF dev THEN code ELSE ""]

\* r.post("/forgot")
Forgot(rawEmail, code) ==
  /\ nreq < MaxApiReq
  /\ IF ~IsEmail(rawEmail)
       THEN /\ last' = AuthLast("forgot", "", "", 400, "", NoToken)
            /\ UNCHANGED <<users, forgotSeen>>
       ELSE LET found == {u \in users : u.email = NormEmail(rawEmail)}
                r == ForgotResponse(found # {}, code, devMail)
            IN  /\ users' = (users \ found) \cup
                      {[u EXCEPT !.resetCode = code,
                                 !.resetCodeExpires = now + RESET_CODE_EXP_MIN] : u \in found}
                /\ last' = AuthLast("forgot", "", "", r.status, r.devCode, NoToken)
                /\ forgotSeen' = forgotSeen \cup
                      {[exists |-> found # {}, status |-> r.status,
                        body |-> [message |-> r.message, devCode |-> r.devCode]]}
  /\ nreq' = nreq + 1
  /\ UNCHANGED <<nextUserId, regs, tokens, devMail>>
  /\ UNCHANGED <<linkVars, pipelineVars, redirectVars, clockVars>>
  /\ UNCHANGED <<sideVars, dbFailed>>

\* r.post("/reset")
Reset(value) ==
  /\ nreq < MaxApiReq
  /\ LET found == {u \in users : u.email = NormEmail(value.email)}
     IN  IF ~IsEmail(value.email) \/ found = {}
           THEN /\ last' = CodeLast("reset", value, 400, NoToken)
                /\ users' = users
         ELSE \E user \in found :
           IF \/ user.resetCode = "" \/ user.resetCodeExpires = NullDate
              \/ user.resetCode # value.code
              \/ CodeExpired(user.resetCodeExpires, now)
             THEN /\ last' = CodeLast("reset", value, 400, NoToken)
                  /\ users' = users
             ELSE /\ users' = (users \ {user}) \cup
                        {[user EXCEPT !.passwordHash = hashPassword(value.password),
                                      !.resetCode = "", !.resetCodeExpires = NullDate,
                                      !.verifyCode = "", !.verifyCodeExpires = NullDate,
                                      !.emailVerified = TRUE]}
                  /\ last' = CodeLast("reset", value, 200, NoToken)
  /\ nreq' = nreq + 1
  /\ UNCHANGED <<nextUserId, regs, tokens, devMail, forgotSeen>>
  /\ UNCHANGED <<linkVars, pipelineVars, redirectVars, clockVars>>
  /\ UNCHANGED <<sideVars, dbFailed>>

\* Authorization headers: scheme "" is a missing header, cred NoToken an empty
\* credential
Schemes == {"Bearer", "bearer", "Basic"}
NoHeader == [scheme |-> "", cred |-> NoToken]

\* h.toLowerCase() on the schemes of the model
LowerScheme(s) == IF s = "Bearer" THEN "bearer" ELSE IF s = "Basic" THEN "basic" ELSE s

getBearerToken(h) ==
  IF h = NoHeader THEN NoToken
  ELSE IF LowerScheme(h.scheme) # "bearer" THEN NoToken
  ELSE h.cred

\* jwt.verify(token, env.JWT_SECRET): signature by this server and not expired
jwtVerify(token, t) == token.sig = "server" /\ t < token.exp

\* a plausible slip: the subject is not looked up
requireAuthNoLookup(h, us, t) ==
  LET token == getBearerToken(h)
  IN  IF token = NoToken THEN [status |-> 401, user |-> 0]
      ELSE IF ~jwtVerify(token, t) THEN [status |-> 401, user |-> 0]
      ELSE [status |-> 0, user |-> token.sub]

\* requireAuth: status 401, or status 0 and req.user when next() is called
requireAuth(h, us, t) ==
  LET token == getBearerToken(h)
  IN  IF token = NoToken THEN [status |-> 401, user |-> 0]
      ELSE IF ~jwtVerify(token, t) THEN [status |-> 401, user |-> 0]
      ELSE IF ~\E u \in us : u.id = token.sub THEN [status |-> 401, user |-> 0]
      ELSE [status |-> 0, user |-> token.sub]

\* tokens a client can send: issued ones, the same with a foreign signature,
\* and one made up outright
ForgedToken == [sub |-> 1, exp |-> 3 * TOKEN_TTL_MIN, sig |-> "other"]
Credentials == tokens \cup {[t EXCEPT !.sig = "other"] : t \in tokens}
                      \cup {ForgedToken, NoToken}
Headers == {NoHeader} \cup [scheme : Schemes, cred : Credentials]

\* a request to a route behind requireAuth (r.get("/me", requireAuth, ...),
\* r.use(requireAuth) of the links and analytics routers); ran: the route
\* handler was called
GuardedRequest(h) ==
  /\ nreq < MaxApiReq
  /\ LET a == requireAuth(h, users, now)
     IN  last' = [kind |-> "guarded", header |-> h,
                  status |-> IF a.status = 401 THEN 401 ELSE 200,
                  ran |-> a.status # 401, user |-> a.user]
  /\ nreq' = nreq + 1
  /\ UNCHANGED authVars
  /\ UNCHANGED <<linkVars, pipelineVars, redirectVars, clockVars>>
  /\ UNCHANGED <<sideVars, dbFailed>>

\* a user document is removed from the collection by the operator of the
\* database: the "Deleted user" case of requireAuth
DropUser ==
  \E u \in users :
    /\ users' = users \ {u}
    /\ UNCHANGED <<nextUserId, regs, tokens, devMail, forgotSeen>>
    /\ UNCHANGED <<nreq, last, linkVars, pipelineVars, redirectVars, clockVars>>
    /\ UNCHANGED <<sideVars, dbFailed>>

(***************************************************************************)
(* SpecAuth: a user collection as the auth routes leave it, then auth      *)
(* requests, guarded requests and clock advances in any order              *)
(***************************************************************************)
RegisterValues == [email : RawEmails, password : {"pw1"}]
LoginValues == [email : RawEmails, password : Passwords]
CodeValues == [email : {"A@x.io", "b@x.io"}, code : SixDigits]
ResetValues == [email : {"A@x.io", "b@x.io"}, code : SixDigits, password : {"pw2"}]

\* user 1 as /register stores it at time 0, and as /verify leaves it
Registered1 == [id |-> 1, email |-> "a@x.io", passwordHash |-> hashPassword("pw1"),
                emailVerified |-> FALSE, verifyCode |-> "111111",
                verifyCodeExpires |-> VERIFY_CODE_EXP_MIN,
                resetCode |-> "", resetCodeExpires |-> NullDate]
Verified1 == [Registered1 EXCEPT !.emailVerified = TRUE, !.verifyCode = "",
                                 !.verifyCodeExpires = NullDate]
Token1 == [sub |-> 1, exp |-> TOKEN_TTL_MIN, sig |-> "server"]

InitAuth ==
  /\ \/ users = {} /\ nextUserId = 1 /\ tokens = {}
     \/ users = {Registered1} /\ nextUserId = 2 /\ tokens = {}
     \/ users = {Verified1} /\ nextUserId = 2 /\ tokens = {Token1}
  /\ regs = {} /\ forgotSeen = {}
  /\ devMail \in BOOLEAN
  /\ links = {} /\ nextLinkId = 1 /\ inflight = {}
  /\ clicks = [l \in LinkIds |-> 0]
  /\ queue = <<>> /\ worker = "idle"
  /\ inline = [l \in LinkIds |-> [new |-> 0, created |-> 0]]
  /\ useQueue = FALSE
  /\ issued = {} /\ served = [l \in LinkIds |-> 0]
  /\ now = 0 /\ ticks = 0 /\ nreq = 0
  /\ last = [kind |-> "none"]
  /\ InitSideIdle
  /\ written = clicks

NextAuth ==
  \/ \E value \in RegisterValues : RegisterCheck(value)
  \/ RegisterCreate
  \/ \E value \in CodeValues : Verify(value)
  \/ \E value \in CodeValues : ResendVerify(value.email, value.code)
  \/ \E value \in LoginValues : Login(value)
  \/ \E rawEmail \in RawEmails, code \in SixDigits : Forgot(rawEmail, code)
  \/ \E value \in ResetValues : Reset(value)
  \/ \E h \in Headers : GuardedRequest(h)
  \/ DropUser
  \/ \E d \in {VERIFY_CODE_EXP_MIN, TOKEN_TTL_MIN} : Tick(d)

SpecAuth == InitAuth /\ [][NextAuth]_vars

(***************************************************************************)
(* Analytics API: routes/analytics.routes.js (mounted under /api, every    *)
(* route below r.use(requireAuth)); time in minutes                        *)
(***************************************************************************)
MIN_PER_DAY == 1440
SHARE_SCOPE == "analytics:share"

\* a JSON object of filters: a set of <<key, value>> pairs; Get is f[k], ""
\* when the key is absent
Get(f, k) == IF \E p \in f : p[1] = k THEN (CHOOSE p \in f : p[1] = k)[2] ELSE ""

\* String.prototype.toUpperCase on the strings of the model
Upper(s) == IF s = "us" THEN "US" ELSE s

\* parseRange, as the length of the window in minutes
RangeMin(range) ==
  IF range = "24h" THEN 24 * 60
  ELSE IF range = "30d" THEN 30 * MIN_PER_DAY
  ELSE 7 * MIN_PER_DAY

\* commonFiltersFromQuery
commonFiltersFromQuery(q) ==
  {<<"utm.source", q.source>> : x \in {1} \cap (IF q.source # "" THEN {1} ELSE {})}
    \cup {<<"country", Upper(q.country)>> :
            x \in {1} \cap (IF q.country # "" THEN {1} ELSE {})}
    \cup {<<"device", q.device>> : x \in {1} \cap (IF q.device # "" THEN {1} ELSE {})}

\* share overview: the filters taken over from decoded.filters
ShareFilters(df) ==
  {<<k, Get(df, k)>> : k \in {j \in {"utm.source", "country", "device"} : Get(df, j) # ""}}

\* the field of a Click document that a filter key names
Field(c, k) ==
  IF k = "utm.source" THEN c.source
  ELSE IF k = "country" THEN c.country
  ELSE IF k = "device" THEN c.device
  ELSE "undefined"

\* { ...filters } in a $match stage
Matches(c, filters) == \A p \in filters : Field(c, p[1]) = p[2]

NoPayload == [clicks |-> {}, prev |-> {}, links |-> 0, annotations |-> {},
              breakdown |-> "", readOnly |-> FALSE, none |-> TRUE]

\* buildOverviewPayload at time t: the Click documents that matchNow and
\* matchPrev select (every aggregate of the payload is computed from them),
\* totals.links and the owner's annotations
buildOverviewPayload(ownerId, range, compare, filters, breakdown, t) ==
  LET since == t - RangeMin(range)
      sincePrev == since - RangeMin(range)
      linkIds == {l.id : l \in {x \in links : x.ownerId = ownerId}}
      matchNow == {c \in clickDocs : c.linkId \in linkIds /\ c.ts >= since
                                     /\ Matches(c, filters)}
      matchPrev == {c \in clickDocs : /\ c.linkId \in linkIds
                                      /\ c.ts >= sincePrev /\ c.ts < since
                                      /\ Matches(c, filters)}
  IN  IF linkIds = {}
        THEN [clicks |-> {}, prev |-> {}, links |-> 0, annotations |-> {},
              breakdown |-> "none", readOnly |-> FALSE, none |-> FALSE]
        ELSE [clicks |-> {c.id : c \in matchNow},
              prev |-> IF compare THEN {c.id : c \in matchPrev} ELSE {},
              links |-> Cardinality(linkIds),
              annotations |-> {a.id : a \in {x \in annotations :
                                               x.ownerId = ownerId /\ x.ts >= since}},
              breakdown |-> breakdown, readOnly |-> FALSE, none |-> FALSE]

\* decoded.scope of a verified token; "" when the payload has no scope
Scope(t) == IF "scope" \in DOMAIN t THEN t.scope ELSE ""

\* what an analytics handler step leaves in `last`: the Authorization
\* header, req.user (0: none), the status and the JSON body
AnLast(kind, h, u, status, body) ==
  [kind |-> kind, header |-> h, user |-> u, status |-> status, body |-> body]

\* r.get("/analytics/overview"), behind r.use(requireAuth)
Overview(h, q) ==
  /\ nreq < MaxApiReq
  /\ LET a == requireAuth(h, users, now)
     IN  last' = IF a.status = 401
                   THEN AnLast("overview", h, 0, 401, NoPayload)
                   ELSE AnLast("overview", h, a.user, 200,
                               buildOverviewPayload(a.user, q.range, q.compare = "1",
                                                    commonFiltersFromQuery(q),
                                                    q.breakdown, now))
  /\ nreq' = nreq + 1
  /\ UNCHANGED <<authVars, linkVars, pipelineVars, redirectVars, clockVars, sideVars,
                 dbFailed>>

\* r.post("/analytics/share/create"), behind r.use(requireAuth)
ShareCreate(h, body) ==
  /\ nreq < MaxApiReq
  /\ LET a == requireAuth(h, users, now)
         days == IF body.expiresInDays > 1 THEN body.expiresInDays ELSE 1
         token == [sub |-> a.user, exp |-> now + days * MIN_PER_DAY, sig |-> "server",
                   scope |-> SHARE_SCOPE, range |-> body.range,
                   compare |-> body.compare, filters |-> body.filters,
                   breakdown |-> body.breakdown]
     IN  IF a.status = 401
           THEN /\ last' = AnLast("shareCreate", h, 0, 401, NoToken)
                /\ tokens' = tokens
           ELSE /\ last' = AnLast("shareCreate", h, a.user, 200, token)
                /\ tokens' = tokens \cup {token}
  /\ nreq' = nreq + 1
  /\ UNCHANGED <<users, nextUserId, regs, devMail, forgotSeen>>
  /\ UNCHANGED <<linkVars, pipelineVars, redirectVars, clockVars, sideVars, dbFailed>>

\* r.get("/analytics/share/:token/overview"), behind r.use(requireAuth); q is
\* the query string, "" for an absent parameter
ShareOverview(h, token, q) ==
  /\ nreq < MaxApiReq
  /\ LET a == requireAuth(h, users, now)
         range == IF q.range # "" THEN q.range ELSE token.range
         breakdown == IF q.breakdown # "" THEN q.breakdown ELSE token.breakdown
         compare == (IF q.compare # "" THEN q.compare
                     ELSE IF token.compare THEN "1" ELSE "0") = "1"
     IN  last' =
           [kind |-> "shareOverview", header |-> h, user |-> a.user, token |-> token,
            query |-> q,
            status |-> IF a.status = 401 THEN 401
                       ELSE IF jwtVerify(token, now) /\ Scope(token) = SHARE_SCOPE
                         THEN 200 ELSE 400,
            body |-> IF a.status # 401 /\ jwtVerify(token, now)
                        /\ Scope(token) = SHARE_SCOPE
                       THEN [buildOverviewPayload(token.sub, range, compare,
                                                  ShareFilters(token.filters),
                                                  breakdown, now)
                               EXCEPT !.readOnly = TRUE]
                       ELSE NoPayload]
  /\ nreq' = nreq + 1
  /\ UNCHANGED <<authVars, linkVars, pipelineVars, redirectVars, clockVars, sideVars,
                 dbFailed>>

\* r.get("/analytics/views"): the _id of every document found
ListViews(h) ==
  /\ nreq < MaxApiReq
  /\ LET a == requireAuth(h, users, now)
     IN  last' = IF a.status = 401
                   THEN AnLast("listViews", h, 0, 401, {})
                   ELSE AnLast("listViews", h, a.user, 200,
                               {v.id : v \in {x \in views : x.ownerId = a.user}})
  /\ nreq' = nreq + 1
  /\ UNCHANGED <<authVars, linkVars, pipelineVars, redirectVars, clockVars, sideVars,
                 dbFailed>>

\* r.post("/analytics/views"); name is String(name).trim()
CreateView(h, name) ==
  /\ nreq < MaxApiReq
  /\ LET a == requireAuth(h, users, now)
     IN  IF a.status = 401
           THEN /\ last' = AnLast("createView", h, 0, 401, 0)
                /\ UNCHANGED <<views, nextDocId, madeBy>>
           ELSE IF name = ""
             THEN /\ last' = AnLast("createView", h, a.user, 400, 0)
                  /\ UNCHANGED <<views, nextDocId, madeBy>>
             ELSE /\ views' = views \cup {[id |-> nextDocId, ownerId |-> a.user,
                                           name |-> name]}
                  /\ nextDocId' = nextDocId + 1
                  /\ madeBy' = madeBy \cup {<<"view", nextDocId, a.user>>}
                  /\ last' = AnLast("createView", h, a.user, 200, nextDocId)
  /\ nreq' = nreq + 1
  /\ UNCHANGED <<annotations, clickDocs, limiterVars, written>>
  /\ UNCHANGED <<authVars, linkVars, pipelineVars, redirectVars, clockVars, dbFailed>>

\* deleteOne({ _id }) without the ownerId condition
deleteOneById(docs, id, ownerId) == {x \in docs : x.id # id}

\* SavedView.deleteOne / Annotation.deleteOne with the filter of the route
deleteOne(docs, id, ownerId) == {x \in docs : ~(x.id = id /\ x.ownerId = ownerId)}

\* r.delete("/analytics/views/:id")
DeleteView(h, id) ==
  /\ nreq < MaxApiReq
  /\ LET a == requireAuth(h, users, now)
     IN  IF a.status = 401
           THEN /\ last' = AnLast("deleteView", h, 0, 401, id)
                /\ UNCHANGED <<views, madeBy>>
           ELSE /\ views' = deleteOne(views, id, a.user)
                /\ madeBy' = madeBy \ {<<"view", id, a.user>>}
                /\ last' = AnLast("deleteView", h, a.user, 200, id)
  /\ nreq' = nreq + 1
  /\ UNCHANGED <<annotations, nextDocId, clickDocs, limiterVars, written>>
  /\ UNCHANGED <<authVars, linkVars, pipelineVars, redirectVars, clockVars, dbFailed>>

\* r.get("/analytics/annotations")
ListAnnotations(h, range) ==
  /\ nreq < MaxApiReq
  /\ LET a == requireAuth(h, users, now)
         since == now - RangeMin(range)
     IN  last' = IF a.status = 401
                   THEN AnLast("listAnnotations", h, 0, 401, {})
                   ELSE AnLast("listAnnotations", h, a.user, 200,
                               {x.id : x \in {y \in annotations :
                                                y.ownerId = a.user /\ y.ts >= since}})
  /\ nreq' = nreq + 1
  /\ UNCHANGED <<authVars, linkVars, pipelineVars, redirectVars, clockVars, sideVars,
                 dbFailed>>

\* r.post("/analytics/annotations"); ts 0 and label "": absent from the body
CreateAnnotation(h, ts, label) ==
  /\ nreq < MaxApiReq
  /\ LET a == requireAuth(h, users, now)
     IN  IF a.status = 401
           THEN /\ last' = AnLast("createAnnotation", h, 0, 401, 0)
                /\ UNCHANGED <<annotations, nextDocId, madeBy>>
           ELSE IF ts = 0 \/ label = ""
             THEN /\ last' = AnLast("createAnnotation", h, a.user, 400, 0)
                  /\ UNCHANGED <<annotations, nextDocId, madeBy>>
             ELSE /\ annotations' = annotations \cup
                                      {[id |-> nextDocId, ownerId |-> a.user, ts |-> ts,
                                        label |-> label]}
                  /\ nextDocId' = nextDocId + 1
                  /\ madeBy' = madeBy \cup {<<"annotation", nextDocId, a.user>>}
                  /\ last' = AnLast("createAnnotation", h, a.user, 200, nextDocId)
  /\ nreq' = nreq + 1
  /\ UNCHANGED <<views, clickDocs, limiterVars, written>>
  /\ UNCHANGED <<authVars, linkVars, pipelineVars, redirectVars, clockVars, dbFailed>>

\* r.delete("/analytics/annotations/:id")
DeleteAnnotation(h, id) ==
  /\ nreq < MaxApiReq
  /\ LET a == requireAuth(h, users, now)
     IN  IF a.status = 401
           THEN /\ last' = AnLast("deleteAnnotation", h, 0, 401, id)
                /\ UNCHANGED <<annotations, madeBy>>
           ELSE /\ annotations' = deleteOne(annotations, id, a.user)
                /\ madeBy' = madeBy \ {<<"annotation", id, a.user>>}
                /\ last' = AnLast("deleteAnnotation", h, a.user, 200, id)
  /\ nreq' = nreq + 1
  /\ UNCHANGED <<views, nextDocId, clickDocs, limiterVars, written>>
  /\ UNCHANGED <<authVars, linkVars, pipelineVars, redirectVars, clockVars, dbFailed>>

(***************************************************************************)
(* SpecAnalytics: two verified, logged-in users with one link each, the    *)
(* Click documents of earlier redirects, a saved view and an annotation;   *)
(* then overview, share and guarded requests and clock advances            *)
(***************************************************************************)
Start == 40 * MIN_PER_DAY

Verified2 == [Verified1 EXCEPT !.id = 2, !.email = "b@x.io"]

ClickDoc(id, linkId, ago, country, source, device) ==
  [id |-> id, linkId |-> linkId, ts |-> Start - ago, country |-> country,
   source |-> source, device |-> device]

StoredClicks ==
  {ClickDoc(1, 1, 60, "US", "news", "mobile"),
   ClickDoc(2, 1, 600, "US", "", "desktop"),
   ClickDoc(3, 1, 2000, "DE", "news", "desktop"),
   ClickDoc(4, 1, 9 * MIN_PER_DAY, "US", "", "mobile"),
   ClickDoc(5, 2, 60, "US", "news", "mobile")}

FilterBodies ==
  {{}, {<<"source", "news">>}, {<<"utm.source", "news">>}, {<<"country", "us">>},
   {<<"device", "mobile">>}}

ShareBodies == [range : {"7d"}, compare : BOOLEAN, filters : FilterBodies,
                breakdown : {"none"}, expiresInDays : {0, 1}]
OverviewQueries == [range : {"24h", "7d"}, compare : {"0", "1"}, source : {"", "news"},
                    country : {"", "us"}, device : {""}, breakdown : {"none"}]
ShareQueries == [range : {"", "24h"}, compare : {"", "1"}, breakdown : {""}]

\* what a client can put in the Authorization header and in :token
AnalyticsHeaders == {NoHeader} \cup {[scheme |-> "Bearer", cred |-> t] : t \in tokens}
ShareTokens == tokens \cup {[t EXCEPT !.sig = "other"] : t \in tokens}

DocIds == 1..(2 + MaxApiReq)

InitAnalytics ==
  /\ users = {Verified1, Verified2} /\ nextUserId = 3
  /\ tokens = {[sub |-> u, exp |-> Start + TOKEN_TTL_MIN, sig |-> "server"] : u \in {1, 2}}
  /\ regs = {} /\ forgotSeen = {} /\ devMail = FALSE
  /\ links = {[LinkDoc(1, 1, "c1", "u1", TRUE, NullDate, NoHash, 0)
                 EXCEPT !.clicksCount = 4],
              [LinkDoc(2, 2, "c2", "u1", TRUE, NullDate, NoHash, 0)
                 EXCEPT !.clicksCount = 1]}
  /\ nextLinkId = 3 /\ inflight = {}
  /\ clicks = [l \in LinkIds |-> IF l = 1 THEN 4 ELSE IF l = 2 THEN 1 ELSE 0]
  /\ clickDocs = StoredClicks
  /\ queue = <<>> /\ worker = "idle"
  /\ inline = [l \in LinkIds |-> [new |-> 0, created |-> 0]]
  /\ useQueue = FALSE
  /\ issued = {} /\ served = [l \in LinkIds |-> 0]
  /\ now = Start /\ ticks = 0 /\ nreq = 0
  /\ last = [kind |-> "none"]
  /\ hits = [k \in LimiterKeys |-> [n |-> 0, resetAt |-> 0]]
  /\ reach = [k \in LimiterKeys |-> 0]
  /\ views = {[id |-> 1, ownerId |-> 1, name |-> "v"]}
  /\ annotations = {[id |-> 2, ownerId |-> 2, ts |-> Start - 60, label |-> "a"]}
  /\ nextDocId = 3
  /\ madeBy = {<<"view", 1, 1>>, <<"annotation", 2, 2>>}
  /\ dbFailed = FALSE
  /\ written = clicks

NextAnalytics ==
  \/ \E h \in AnalyticsHeaders, q \in OverviewQueries : Overview(h, q)
  \/ \E h \in AnalyticsHeaders, body \in ShareBodies : ShareCreate(h, body)
  \/ \E h \in AnalyticsHeaders, token \in ShareTokens, q \in ShareQueries :
       ShareOverview(h, token, q)
  \/ \E h \in AnalyticsHeaders : GuardedRequest(h)
  \/ Tick(MIN_PER_DAY)

SpecAnalytics == InitAnalytics /\ [][NextAnalytics]_vars

(***************************************************************************)
(* SpecViews: the same collections, then saved-view and annotation         *)
(* requests by the two users and clock advances                            *)
(***************************************************************************)
NextViews ==
  \/ \E h \in AnalyticsHeaders : ListViews(h)
  \/ \E h \in AnalyticsHeaders, name \in {"", "v"} : CreateView(h, name)
  \/ \E h \in AnalyticsHeaders, id \in DocIds : DeleteView(h, id)
  \/ \E h \in AnalyticsHeaders, range \in {"24h", "7d"} : ListAnnotations(h, range)
  \/ \E h \in AnalyticsHeaders, ts \in {0, Start - 60}, label \in {"", "a"} :
       CreateAnnotation(h, ts, label)
  \/ \E h \in AnalyticsHeaders, id \in DocIds : DeleteAnnotation(h, id)
  \/ Tick(MIN_PER_DAY)

SpecViews == InitAnalytics /\ [][NextViews]_vars

(***************************************************************************)
(* buildOverviewPayload query by query: the aggregates are separate reads  *)
(* of the Click collection, started together by Promise.all and answered   *)
(* by the database one at a time, while click writes go on                 *)
(***************************************************************************)
Aggregates == {"byDay", "totalsAgg", "byDayPrev", "totalsPrevAgg"}

\* matchNow and matchPrev of a request r (t0: its Date.now())
MatchNow(c, r) ==
  /\ c.linkId \in r.linkIds
  /\ c.ts >= r.t0 - RangeMin(r.range)
  /\ Matches(c, r.filters)
MatchPrev(c, r) ==
  /\ c.linkId \in r.linkIds
  /\ c.ts >= r.t0 - 2 * RangeMin(r.range) /\ c.ts < r.t0 - RangeMin(r.range)
  /\ Matches(c, r.filters)

\* compare ? matchPrev : { _id: null, ts: new Date(0) }; no document has
\* _id null
MatchCompare(c, r) == IF r.compare THEN MatchPrev(c, r) ELSE FALSE

\* $dateToString of localTs = ts + tzMin minutes with dateFormatForRange:
\* the hour for "24h", else the day
Bucket(c, r) == (c.ts + r.tz) \div (IF r.range = "24h" THEN 60 ELSE MIN_PER_DAY)

\* $group by day with clicks: {$sum: 1}: the rows as a function day -> clicks
GroupByDay(docs, r) ==
  [d \in {Bucket(c, r) : c \in docs} |->
     Cardinality({c \in docs : Bucket(c, r) = d})]

\* $group with _id: null and clicks: {$sum: 1}; totalsAgg[0]?.clicks || 0
CountAll(docs) == Cardinality(docs)

\* the sum of clicks over rows
RECURSIVE SumRows(_)
SumRows(rows) ==
  IF DOMAIN rows = {} THEN 0
  ELSE LET d == CHOOSE x \in DOMAIN rows : TRUE
       IN  rows[d] + SumRows([x \in DOMAIN rows \ {d} |-> rows[x]])

OverviewCalls == [range : {"24h", "7d"}, compare : {"0", "1"}, source : {"", "news"},
                  tz : {0, 90}]
OverviewInFlight == {r \in inflight : r.kind = "overview"}

\* r.get("/analytics/overview") up to Promise.all: requireAuth, Date.now(),
\* Link.find({ ownerId })
OverviewStart(h, q) ==
  /\ nreq < MaxApiReq
  /\ OverviewInFlight = {}
  /\ LET a == requireAuth(h, users, now)
         linkIds == {l.id : l \in {x \in links : x.ownerId = a.user}}
     IN  IF a.status = 401
           THEN /\ last' = [kind |-> "overviewDone", status |-> 401]
                /\ inflight' = inflight
           ELSE /\ inflight' = inflight \cup
                      {[kind |-> "overview", user |-> a.user, t0 |-> now,
                        range |-> q.range, compare |-> q.compare = "1",
                        filters |-> commonFiltersFromQuery(
                                      [source |-> q.source, country |-> "",
                                       device |-> ""]),
                        tz |-> q.tz, linkIds |-> linkIds, done |-> {},
                        byDay |-> <<>>, totals |-> 0, byDayPrev |-> <<>>,
                        totalsPrev |-> 0, nowIds |-> {}, prevIds |-> {}]}
                /\ last' = last
  /\ nreq' = nreq + 1
  /\ UNCHANGED <<links, nextLinkId, authVars, pipelineVars, redirectVars, clockVars,
                 sideVars, dbFailed>>

\* the database answers one of the aggregates from the Click collection as
\* it is now; nowIds and prevIds: the documents counted by totalsAgg and
\* totalsPrevAgg
OverviewAggregate(name) ==
  \E r \in OverviewInFlight :
    /\ name \notin r.done
    /\ LET cur == {c \in clickDocs : MatchNow(c, r)}
           prev == {c \in clickDocs : MatchCompare(c, r)}
           read == [r EXCEPT !.done = @ \cup {name}]
       IN  inflight' = (inflight \ {r}) \cup
             {IF name = "byDay" THEN [read EXCEPT !.byDay = GroupByDay(cur, r)]
              ELSE IF name = "totalsAgg"
                THEN [read EXCEPT !.totals = CountAll(cur),
                                  !.nowIds = {c.id : c \in cur}]
              ELSE IF name = "byDayPrev"
                THEN [read EXCEPT !.byDayPrev = GroupByDay(prev, r)]
              ELSE [read EXCEPT !.totalsPrev = CountAll(prev),
                                !.prevIds = {c.id : c \in prev}]}
    /\ UNCHANGED <<links, nextLinkId, nreq, last, authVars, pipelineVars, redirectVars,
                   clockVars, sideVars, dbFailed>>

\* Promise.all has resolved: res.json(payload)
OverviewRespond ==
  \E r \in OverviewInFlight :
    /\ r.done = Aggregates
    /\ last' = [kind |-> "overviewDone", status |-> 200, req |-> r]
    /\ inflight' = inflight \ {r}
    /\ UNCHANGED <<links, nextLinkId, nreq, authVars, pipelineVars, redirectVars,
                   clockVars, sideVars, dbFailed>>

\* inline fallback, first await, with the document it stores: Click.create
\* sets ts to new Date()
ClickCreate ==
  \E l \in LinkIds :
    /\ inline[l].new > 0
    /\ clickDocs' = clickDocs \cup
         {[id |-> Cardinality(clickDocs) + 1, linkId |-> l, ts |-> now,
           country |-> "US", source |-> "news", device |-> "mobile"]}
    /\ clicks' = [clicks EXCEPT ![l] = @ + 1]
    /\ written' = [written EXCEPT ![l] = @ + 1]
    /\ inline' = [inline EXCEPT ![l].new = @ - 1, ![l].created = @ + 1]
    /\ UNCHANGED <<links, nextLinkId, queue, worker, useQueue, issued, now,
                   ticks, nreq, last, served, inflight>>
    /\ UNCHANGED <<authVars, limiterVars, dbFailed>>
    /\ UNCHANGED <<views, annotations, nextDocId, madeBy>>

(***************************************************************************)
(* SpecOverview: the collections of SpecAnalytics; visitors follow the     *)
(* link of user 1 and the users load their overview meanwhile              *)
(***************************************************************************)
NextOverview ==
  \/ \E req \in LimitReqs : Redirect(req, TRUE)
  \/ ClickCreate
  \/ InlineInc
  \/ \E h \in AnalyticsHeaders, q \in OverviewCalls : OverviewStart(h, q)
  \/ \E name \in Aggregates : OverviewAggregate(name)
  \/ OverviewRespond
  \/ Tick(60)

SpecOverview == InitAnalytics /\ [][NextOverview]_vars

(***************************************************************************)
(* Properties of the redirect handler                                      *)
(***************************************************************************)
\* the step handles a request
RequestStep == nreq' = nreq + 1

Expired(l, t) == l.expiresAt # NullDate /\ l.expiresAt < t
Capped(l) == l.maxClicks > 0 /\ l.clicksCount >= l.maxClicks
ToLongUrl(l) == [kind |-> "url", target |-> l.longUrl]
ToUnlock(code) == {[kind |-> "unlock", target |-> code], [kind |-> "unlockErr", target |-> code]}

\* C1 (as claimed): for every link with maxClicks = N > 0 the number of requests
\* answered with a 302 to the link's longUrl never exceeds N.
C1_ServedWithinCap ==
  \A l \in links : l.maxClicks > 0 => served[l.id] <= l.maxClicks

\* the link whose code the last request asked for (none: NoLinkDoc), as the
\* collection held it before the step
Asked == LET found == {l \in links : l.code = Trim(last'.code)}
         IN  IF found = {} THEN NoLinkDoc ELSE CHOOSE l \in found : TRUE

\* the same, in a state
AskedNow == LET found == {l \in links : l.code = Trim(last.code)}
            IN  IF found = {} THEN NoLinkDoc ELSE CHOOSE l \in found : TRUE

C4_AsClaimed ==
  [][(RequestStep /\ Expired(Asked, now)) =>
       /\ last'.status = 410
       /\ last'.loc # ToLongUrl(Asked)
       /\ UNCHANGED <<queue, inline>>]_vars

\* C4 (amended): such a request is never answered with a 302 to the longUrl and
\* enqueues no click; it is answered 410 when the link is active, and 404 when
\* the link is disabled.
C4_Expired ==
  [][(RequestStep /\ Expired(Asked, now)) =>
       /\ last'.status = IF Asked.isActive THEN 410 ELSE 404
       /\ last'.loc = NoLoc
       /\ UNCHANGED <<queue, inline, served>>]_vars

\* an expired, active, password-protected link with a click cap answered 410
\* to a request that carried the right password
C4_Witness ==
  /\ last.kind = "redirect" /\ last.status = 410 /\ last.pwMatches
  /\ AskedNow.isActive /\ Expired(AskedNow, now)
  /\ AskedNow.passwordHash # NoHash /\ AskedNow.maxClicks > 0

\* C5: a request for a code that matches no link, or a link whose isActive is
\* false, is answered 404, enqueues no click and leaves clicksCount unchanged.
C5_NotFound ==
  [][(RequestStep /\ ~Asked.isActive) =>
       /\ last'.status = 404 /\ last'.loc = NoLoc
       /\ UNCHANGED <<queue, inline, links, clicks, served>>]_vars

\* a disabled link answered 404 to a request that carried the right password
C5_Witness ==
  /\ last.kind = "redirect" /\ last.status = 404 /\ last.pwMatches
  /\ AskedNow.id # 0 /\ ~AskedNow.isActive

\* click writes of link l that are queued, scheduled or half done
QueuedFor(l) == Cardinality({i \in 1..Len(queue) : queue[i] = l})
PendingCreates(l) ==
  inline[l].new + QueuedFor(l)
    - (IF queue # <<>> /\ worker = "created" /\ Head(queue) = l THEN 1 ELSE 0)

NoDoubleWrite == \A l \in LinkIds : clicks[l] + PendingCreates(l) <= served[l]

\* C11: a redirect step that calls enqueueClick (it answers 302 to the longUrl)
\* takes exactly one path: with the queue in use and queue.add resolving, the
\* job is appended to the queue and no inline write is scheduled; with the
\* queue not in use, or queue.add throwing, one inline write is scheduled and
\* the queue is left alone; the response is the 302 in either case; no other
\* request touches the queue or the inline writes; and in every state the
\* Click documents of a link plus its click writes still to come are no more
\* than the redirects served for it, so no click is written twice.
C11_OneWritePath ==
  /\ []NoDoubleWrite
  /\ [][RequestStep =>
          LET l == Asked.id
              called == last'.loc = ToLongUrl(Asked) /\ last'.status = 302
          IN  /\ (called /\ useQueue /\ last'.add = "ok") =>
                   queue' = Append(queue, l) /\ inline' = inline
              /\ (called /\ (~useQueue \/ last'.add = "threw")) =>
                   /\ inline' = [inline EXCEPT ![l].new = @ + 1]
                   /\ queue' = queue
              /\ called => last'.add \in (IF useQueue THEN {"ok", "threw"} ELSE {"none"})
              /\ ~called => (UNCHANGED <<queue, inline>> /\ last'.add = "none")
       ]_vars

\* queue.add threw for a request, the click went to the inline path, the
\* redirect was sent, and the inline write has completed since
C11_Witness ==
  /\ last.kind = "redirect" /\ last.add = "threw"
  /\ last.status = 302 /\ last.loc.kind = "url"
  /\ queue = <<>>
  /\ \E l \in LinkIds : served[l] = 1 /\ clicks[l] = 1 /\ inline[l].new = 0

WithinLimit == \A k \in LimiterKeys : reach[k] <= 12

\* C12: in every state, at most 12 requests with one (code, address) key have
\* reached the redirect handler in the key's current limiter window; a window
\* lasts 5000 ms from its first request and a new one opens only when the old
\* one is over; a request whose key has had 12 requests reach the handler in
\* the window still open is refused with 429 before the handler, and a
\* refused request causes no redirect, sets no cookie and enqueues no click.
C12_PerLinkLimit ==
  /\ []WithinLimit
  /\ [][(RequestStep /\ last'.kind = "redirect") =>
          LET k == <<last'.code, last'.ip>>
          IN  /\ hits'[k].resetAt # hits[k].resetAt =>
                   /\ hits'[k].resetAt = now + 5000
                   /\ hits[k].n = 0 \/ now >= hits[k].resetAt
              /\ (reach[k] = 12 /\ hits[k].n > 0 /\ now < hits[k].resetAt) =>
                   last'.limited
              /\ last'.limited =>
                   /\ last'.status = 429 /\ last'.loc = NoLoc
                   /\ UNCHANGED <<queue, inline, served, issued, links, clicks>>
       ]_vars

\* twelve requests of one address were served in a window and its thirteenth
\* was refused by the per-link limiter
C12_Witness ==
  /\ last.kind = "redirect" /\ last.limited /\ last.ip = "ip1"
  /\ hits[<<"c1", "ip1">>].n = 13 /\ reach[<<"c1", "ip1">>] = 12
  /\ served[1] = 12 /\ now < hits[<<"c1", "ip1">>].resetAt

(***************************************************************************)
(* Properties of the links API                                             *)
(***************************************************************************)
\* C2: in every reachable state no two stored links have the same code.
C2_UniqueCodes ==
  \A a \in links : \A b \in links : a.code = b.code => a.id = b.id

\* a create lost the race for its code to a rename: it passed the findOne
\* check, link 1 was renamed to the code, and the unique index refused the insert
C2_Witness ==
  /\ last.kind = "create" /\ last.status = 500
  /\ \E l \in links : l.id = 1 /\ l.code = "c2"

\* the step is a links-API handler step on behalf of an authenticated user
LinksApiStep ==
  /\ nreq' # nreq \/ inflight' # inflight
  /\ last'.kind \in {"get", "qr", "patch", "delete"}

\* C6 (as claimed): a links-API request (GET, PATCH, DELETE /api/links/:id, QR)
\* authenticated as user A never modifies or deletes a link owned by another
\* user B, nor any Click document that references one of B's links.
C6_OwnerIsolation ==
  [][LinksApiStep =>
       \A l \in links : l.ownerId # last'.user =>
         (l \in links' /\ clicks'[l.id] = clicks[l.id])]_vars

(***************************************************************************)
(* Properties of the auth API                                              *)
(***************************************************************************)
AuthRequestStep(kind) == nreq' = nreq + 1 /\ last'.kind = kind

\* the accounts a login or register request names, found without the handler
AccountsFor(rawEmail) == {u \in users : IsEmail(rawEmail) /\ u.email = NormEmail(rawEmail)}

\* C7: /login answers with a token only if an account has the email, its hash
\* is the hash of the password sent and its emailVerified is true; an
\* unverified account with the right password gets 403 EMAIL_NOT_VERIFIED and
\* no token; and the subject of every token that /login or /verify returns is
\* a user whose emailVerified is true in the state the request leaves.
C7_LoginTokens ==
  [][/\ AuthRequestStep("login") =>
          /\ last'.token # NoToken =>
               \E u \in AccountsFor(last'.email) :
                 /\ u.passwordHash = hashPassword(last'.password)
                 /\ u.emailVerified
                 /\ last'.status = 200
          /\ \A u \in AccountsFor(last'.email) :
               (u.passwordHash = hashPassword(last'.password) /\ ~u.emailVerified)
                 => /\ last'.status = 403 /\ last'.code = "EMAIL_NOT_VERIFIED"
                    /\ last'.token = NoToken
     /\ (AuthRequestStep("login") \/ AuthRequestStep("verify")) =>
          /\ tokens' \subseteq tokens \cup {last'.token}
          /\ last'.token # NoToken =>
               /\ last'.token \in tokens'
               /\ \E u \in users' : u.id = last'.token.sub /\ u.emailVerified
    ]_vars

\* a login has just returned a token for an account that /verify verified
C7_Witness ==
  /\ last.kind = "login" /\ last.status = 200 /\ last.token \in tokens
  /\ \E u \in users : u.id = last.token.sub /\ u.emailVerified
  /\ Cardinality(tokens) = 2

LacksBearer(h) == h.scheme \notin {"Bearer", "bearer"} \/ h.cred = NoToken

\* C8: a request to a guarded route whose Authorization header has no Bearer
\* token, or whose token is not signed by the server, or is expired, or names
\* a user that is not stored, is answered 401 and its route handler is not run.
C8_Unauthorized ==
  [][AuthRequestStep("guarded") =>
       LET h == last'.header
       IN  (\/ LacksBearer(h)
            \/ h.cred.sig # "server"
            \/ now >= h.cred.exp
            \/ ~\E u \in users : u.id = h.cred.sub)
             => last'.status = 401 /\ ~last'.ran
    ]_vars

\* a token the server issued, not expired, whose user is gone, was refused
C8_Witness ==
  /\ last.kind = "guarded" /\ last.status = 401 /\ ~last.ran
  /\ last.header.scheme = "Bearer" /\ last.header.cred \in tokens
  /\ now < last.header.cred.exp
  /\ ~\E u \in users : u.id = last.header.cred.sub

\* C9 (as claimed): the responses /forgot has given to valid emails with an
\* account and to valid emails without one have the same status and body.
C9_AsClaimed ==
  \A r1, r2 \in forgotSeen :
    (r1.exists /\ ~r2.exists) => r1.status = r2.status /\ r1.body = r2.body

\* C9 (amended): those responses have the same status and message; with
\* DEV_MAIL off their bodies are equal, with DEV_MAIL on the body for an
\* existing account carries devCode and the other does not.
C9_ForgotUniform ==
  \A r1, r2 \in forgotSeen :
    (r1.exists /\ ~r2.exists) =>
      /\ r1.status = r2.status /\ r1.body.message = r2.body.message
      /\ ~devMail => r1.body = r2.body
      /\ devMail => r1.body.devCode # "" /\ r2.body.devCode = ""

\* with DEV_MAIL off, /forgot has answered for an account and for none
C9_Witness ==
  /\ ~devMail
  /\ \E r1, r2 \in forgotSeen : r1.exists /\ ~r2.exists

UniqueEmails == \A a, b \in users : NormEmail(a.email) = NormEmail(b.email) => a = b

\* C10: in every reachable state no two users have the same trimmed,
\* lower-cased email; a register request that arrives while a user has its
\* email is answered 409 and changes no user, and no step of a register
\* request changes or removes a stored user.
C10_UniqueEmails ==
  /\ []UniqueEmails
  /\ [][/\ (AuthRequestStep("register") /\ AccountsFor(last'.email) # {})
             => last'.status = 409 /\ users' = users
        /\ (last'.kind = "register" /\ (nreq' = nreq + 1 \/ regs' # regs))
             => users \subseteq users'
       ]_vars

\* a register request for a case variant of a stored email was answered 409
C10_Witness ==
  /\ last.kind = "register" /\ last.status = 409 /\ last.email = "A@x.io"
  /\ \E u \in users : u.email = "a@x.io"


(***************************************************************************)
(* Properties of the analytics API                                         *)
(***************************************************************************)
\* a step in which an analytics or guarded handler answered a request
AnalyticsStep(kind) == nreq' = nreq + 1 /\ last'.kind = kind

\* the token verifies against the server secret, is unexpired and is a
\* share token
ValidShare(token) ==
  token.sig = "server" /\ now < token.exp /\ Scope(token) = "analytics:share"

\* the Click documents of the links of user u
ClicksOf(u) == {c.id : c \in {x \in clickDocs : \E l \in links :
                                 l.id = x.linkId /\ l.ownerId = u}}

\* C13: GET /analytics/share/:token/overview answers with a payload only
\* for a server-signed, unexpired token of scope "analytics:share", the
\* payload covers the links of the token's subject and carries readOnly:
\* true; every other token is answered 400 without analytics data.
C13_ShareTokenOnly ==
  [][AnalyticsStep("shareOverview") =>
       LET token == last'.token
       IN  /\ last'.status = 200 =>
                /\ ValidShare(token)
                /\ last'.body.readOnly
                /\ last'.body.clicks \cup last'.body.prev \subseteq ClicksOf(token.sub)
                /\ last'.body.links = Cardinality({l \in links : l.ownerId = token.sub})
           /\ ~ValidShare(token) => last'.status = 400 /\ last'.body = NoPayload
    ]_vars


\* the saved views and annotations in the database are the ones their
\* creators made and have not asked to delete
StoredAsMade ==
  {<<"view", v.id, v.ownerId>> : v \in views}
    \cup {<<"annotation", a.id, a.ownerId>> : a \in annotations} = madeBy

\* C14: after any saved-view and annotation create and delete requests by
\* any users, GET /analytics/views for user U returns exactly the views that
\* U created and has not deleted, and a delete request by another user
\* removes none of U's views or annotations.
C14_PerUserViews ==
  /\ []StoredAsMade
  /\ [][/\ (AnalyticsStep("listViews") /\ last'.status = 200) =>
              last'.body = {m[2] : m \in {x \in madeBy : x[1] = "view"
                                                         /\ x[3] = last'.user}}
        /\ (AnalyticsStep("deleteView") \/ AnalyticsStep("deleteAnnotation")) =>
              /\ {v \in views : v.ownerId # last'.user} \subseteq views'
              /\ {a \in annotations : a.ownerId # last'.user} \subseteq annotations'
       ]_vars

\* user 2 asked to delete the view of user 1, which is still stored
C14_Witness ==
  /\ last.kind = "deleteView" /\ last.status = 200 /\ last.user = 2
  /\ \E v \in views : v.id = last.body /\ v.ownerId = 1


\* the query of the owner's overview that names the filters f of a
\* share-create body (the UTM source under either of its two keys)
QueryOf(f) ==
  [source |-> IF Get(f, "source") # "" THEN Get(f, "source") ELSE Get(f, "utm.source"),
   country |-> Get(f, "country"), device |-> Get(f, "device")]

\* C17: the overview served for a share token applies the filters that were
\* supplied in the body of the share-create request: it equals the owner's
\* own overview for the same range, compare, breakdown and filters.
C17_ShareSameFilters ==
  [][(AnalyticsStep("shareOverview") /\ last'.status = 200) =>
       LET t == last'.token
           q == last'.query
           range == IF q.range # "" THEN q.range ELSE t.range
           breakdown == IF q.breakdown # "" THEN q.breakdown ELSE t.breakdown
           compare == IF q.compare # "" THEN q.compare = "1" ELSE t.compare
           own == buildOverviewPayload(t.sub, range, compare,
                                       commonFiltersFromQuery(QueryOf(t.filters)),
                                       breakdown, now)
       IN  last'.body = [own EXCEPT !.readOnly = TRUE]
    ]_vars


\* C18: a share token presented as the Bearer credential to a route guarded
\* by requireAuth is answered 401 and never authenticates the requester as
\* the token's subject user.
C18_ShareTokenNotLogin ==
  [][(nreq' = nreq + 1 /\ Scope(last'.header.cred) = "analytics:share") =>
       last'.status = 401 /\ last'.user = 0
    ]_vars

\* C19: a request to GET /api/analytics/share/:token/overview with a valid,
\* unexpired share token and no Authorization header is answered with the
\* overview payload.
C19_ShareWithoutLogin ==
  [][(AnalyticsStep("shareOverview") /\ last'.header = NoHeader
        /\ ValidShare(last'.token)) =>
       last'.status = 200 /\ ~last'.body.none /\ last'.body.readOnly
    ]_vars


(***************************************************************************)
(* Properties of the verification and reset codes                          *)
(***************************************************************************)
\* the accounts a /verify or /reset request names
Named == {u \in users : u.email = NormEmail(last'.email)}

\* the user documents of the next state whose verification (reset) code was
\* stored by this step
NewVerifyCodes ==
  {v \in users' : v.verifyCode # "" /\ ~\E u \in users :
      u.id = v.id /\ u.verifyCode = v.verifyCode
        /\ u.verifyCodeExpires = v.verifyCodeExpires}
NewResetCodes ==
  {v \in users' : v.resetCode # "" /\ ~\E u \in users :
      u.id = v.id /\ u.resetCode = v.resetCode
        /\ u.resetCodeExpires = v.resetCodeExpires}

\* C15: a verification or reset code is accepted by /auth/verify or
\* /auth/reset only if it is submitted no later than 10 minutes after it was
\* issued; a later submission is rejected with 400 even when the code
\* matches.
C15_CodeWindow ==
  [][/\ \A v \in NewVerifyCodes : v.verifyCodeExpires = now + 10
     /\ \A v \in NewResetCodes : v.resetCodeExpires = now + 10
     /\ AuthRequestStep("verify") =>
          /\ last'.status = 200 =>
               \E u \in Named : /\ u.verifyCode = last'.sent
                                /\ u.verifyCodeExpires # NullDate
                                /\ now <= u.verifyCodeExpires
          /\ (\E u \in Named : /\ u.verifyCodeExpires # NullDate
                               /\ now > u.verifyCodeExpires) => last'.status = 400
     /\ AuthRequestStep("reset") =>
          /\ last'.status = 200 =>
               \E u \in Named : /\ u.resetCode = last'.sent
                                /\ u.resetCodeExpires # NullDate
                                /\ now <= u.resetCodeExpires
          /\ (\E u \in Named : /\ u.resetCodeExpires # NullDate
                               /\ now > u.resetCodeExpires) => last'.status = 400
    ]_vars

\* a matching verification code was submitted after its 10 minutes and
\* rejected
C15_Witness ==
  /\ last.kind = "verify" /\ last.status = 400
  /\ \E u \in users : /\ u.email = NormEmail(last.email)
                      /\ u.verifyCode = last.sent
                      /\ u.verifyCodeExpires # NullDate
                      /\ now > u.verifyCodeExpires


\* a verified account holds no verification code
CodeCleared ==
  \A u \in users : u.emailVerified => u.verifyCode = "" /\ u.verifyCodeExpires = NullDate

\* C16: a verification code is single-use: a successful /auth/verify clears
\* the stored code and its expiry, and every later /auth/verify for that
\* user is rejected with 400 until resend-verify issues a new code (which it
\* never does for a verified account).
C16_SingleUse ==
  /\ []CodeCleared
  /\ [][/\ (AuthRequestStep("verify") /\ last'.status = 200) =>
             /\ Named # {}
             /\ \A u \in Named : \E v \in users' :
                   /\ v.id = u.id /\ v.emailVerified
                   /\ v.verifyCode = "" /\ v.verifyCodeExpires = NullDate
        /\ (AuthRequestStep("verify") /\ \E u \in Named : u.emailVerified) =>
             last'.status = 400 /\ users' = users
        /\ \A u \in users, v \in users' :
             (u.id = v.id /\ u.emailVerified) => (v.emailVerified /\ v.verifyCode = "")
       ]_vars

\* the code that verified the account a while ago is submitted again and
\* rejected
C16_Witness ==
  /\ last.kind = "verify" /\ last.status = 400 /\ last.sent = "111111"
  /\ forgotSeen = {}
  /\ \E u \in users : /\ u.email = NormEmail(last.email) /\ u.emailVerified
                      /\ \E t \in tokens : t.sub = u.id /\ t.exp > TOKEN_TTL_MIN


(***************************************************************************)
(* Properties of the click counter                                         *)
(***************************************************************************)
\* no queued job and no scheduled or in-flight inline click write
Quiescent ==
  /\ queue = <<>> /\ worker = "idle"
  /\ \A l \in LinkIds : inline[l].new = 0 /\ inline[l].created = 0

\* C20: in every quiescent state, provided no database write has failed,
\* clicksCount of every existing link equals the number of stored Click
\* documents that reference it; and in every state clicksCount does not
\* exceed the number of Click documents written so far for the link.
C20_CountMatchesClicks ==
  /\ (Quiescent /\ ~dbFailed) => \A l \in links : l.clicksCount = clicks[l.id]
  /\ \A l \in links : l.clicksCount <= written[l.id]


(***************************************************************************)
(* Properties of the overview windows                                      *)
(***************************************************************************)
\* the request whose overview payload has just been sent
Sent == last'.req

\* C21: in an overview payload for range length L the current window is
\* [now - L, now] and the comparison window [now - 2L, now - L): no click
\* is counted in both totals.clicks and totalsPrev.clicks; without compare,
\* byDayPrev is empty and totalsPrev.clicks is 0; and totals.clicks is the
\* sum of clicks over the byDay rows.
C21_OverviewWindows ==
  [][(last' # last /\ last'.kind = "overviewDone" /\ last'.status = 200) =>
       LET L == RangeMin(Sent.range)
       IN  /\ \A c \in clickDocs :
                /\ c.id \in Sent.nowIds => c.ts >= Sent.t0 - L /\ c.ts <= Sent.t0
                /\ c.id \in Sent.prevIds =>
                     c.ts >= Sent.t0 - 2 * L /\ c.ts < Sent.t0 - L
           /\ Sent.nowIds \cap Sent.prevIds = {}
           /\ ~Sent.compare => DOMAIN Sent.byDayPrev = {} /\ Sent.totalsPrev = 0
           /\ Sent.totals = SumRows(Sent.byDay)
    ]_vars

====
